---- MODULE Spec2Model ----
(***************************************************************************)
(* Model of the Meteora DLMM instruction processor:                        *)
(*   utils.rs      CLIENT_ACCOUNT_FILTERING, LP_WALLETS, read_lp_wallets_config *)
(*   token.rs      get_token_metadata                                      *)
(*   message.rs    TelegramService::send_message                           *)
(*   processer.rs  MeteoraInstructionProcessor::process,                   *)
(*                 check_accounts_in_client                                *)
(* One call of process is a run of the actions Process, Classify,          *)
(* ResolveX, ResolveY, ReportAmounts, SendMessage, InnerLog; the steps are *)
(* cut at the calls to the external collaborators (ledger read, Telegram). *)
(* process takes &mut self, so the calls of one processor do not overlap:  *)
(* NextInstruction hands the next instruction of the feed to a new call.   *)
(* NewTelegramService and NewProcessor are the startup that precedes the   *)
(* first call.  SpecThrottle is test_send_msg: three tasks calling         *)
(* send_message through the one TelegramService.                           *)
(* Strings are sequences of one-character strings.                         *)
(***************************************************************************)
EXTENDS Integers, Sequences, FiniteSets

VARIABLES
    clientAccountFiltering, \* Lazy<bool>: <<>> before first use, then <<b>>
    lpWallets,              \* Lazy<Vec<String>>: <<>> before first use, then <<list>>
    configLog,              \* the log line written by read_lp_wallets_config
    pc,                     \* position of the process call
    data,                   \* the instruction handed to process
    checked,                \* <<>> or <<result of check_accounts_in_client>>
    rpc,                    \* mints whose metadata account was read in this call
    meta_x, meta_y,         \* <<>> or <<result of get_token_metadata>>
    fetched_x, fetched_y,   \* <<>> or <<what get_account answered for the mint>>
    sent,                   \* messages passed to send_message in this call
    sendResult,             \* <<>> or <<result of send_message>>
    log,                    \* log lines written by process in this call
    result,                 \* <<>> while running, <<"Ok">> after return, <<"panic">>
    telegramEnv,            \* TELEGRAM_BOT_TOKEN and TELEGRAM_GROUP_ID of the process
    service,                \* <<>> or <<the TelegramService constructed>>
    startup,                \* "start", "service", "running", or "panic"
    taskPc,                 \* test_send_msg: position of each spawned task
    queue,                  \* per limiter: the requests waiting to be released
    window,                 \* per limiter: requests released in this interval
    delayed                 \* tasks whose request waited for a later interval

vars == <<clientAccountFiltering, lpWallets, configLog, pc, data, checked, rpc,
          meta_x, meta_y, fetched_x, fetched_y, sent, sendResult, log, result,
          telegramEnv, service, startup, taskPc, queue, window, delayed>>

processVars == <<clientAccountFiltering, lpWallets, configLog, pc, data, checked, rpc,
                 meta_x, meta_y, fetched_x, fetched_y, sent, sendResult, log, result>>

startupVars == <<telegramEnv, service, startup>>

throttleVars == <<taskPc, queue, window, delayed>>

----------------------------------------------------------------------------
(* Bounds of the model *)

MaxKeys == 1        \* static account keys per transaction
MaxWallets == 1     \* entries in config.json's lp_wallets
MaxAmount == 1      \* amounts range over 0..MaxAmount
MaxBins == 1        \* elements of bin_liquidity_removal
ThrottleLimit == 1  \* requests the limiter releases per interval

----------------------------------------------------------------------------
(* Strings and conversions *)

NUL == "NUL"

RECURSIVE SeqsUpTo(_, _)
SeqsUpTo(S, n) ==
    IF n = 0 THEN {<<>>}
    ELSE LET shorter == SeqsUpTo(S, n - 1)
         IN  shorter \cup {Append(s, e) : s \in {t \in shorter : Len(t) = n - 1}, e \in S}

Range(s) == {s[i] : i \in 1..Len(s)}

Base58Alphabet ==
    <<"1","2","3","4","5","6","7","8","9",
      "A","B","C","D","E","F","G","H","J","K","L","M","N","P","Q","R","S","T",
      "U","V","W","X","Y","Z",
      "a","b","c","d","e","f","g","h","i","j","k","m","n","o","p","q","r","s",
      "t","u","v","w","x","y","z">>

RECURSIVE BytesToNat(_)
BytesToNat(bytes) ==
    IF bytes = <<>> THEN 0
    ELSE 256 * BytesToNat(SubSeq(bytes, 1, Len(bytes) - 1)) + bytes[Len(bytes)]

RECURSIVE LeadingZeros(_)
LeadingZeros(bytes) ==
    IF bytes = <<>> \/ bytes[1] # 0 THEN 0
    ELSE 1 + LeadingZeros(Tail(bytes))

RECURSIVE Base58Digits(_)
Base58Digits(n) ==
    IF n = 0 THEN <<>>
    ELSE Append(Base58Digits(n \div 58), Base58Alphabet[(n % 58) + 1])

\* Pubkey::to_string: base58, one "1" per leading zero byte
PubkeyToString(pubkey) ==
    [i \in 1..LeadingZeros(pubkey) |-> "1"] \o Base58Digits(BytesToNat(pubkey))

DecimalDigits == <<"0","1","2","3","4","5","6","7","8","9">>

RECURSIVE DecimalOf(_)
DecimalOf(n) ==
    IF n < 10 THEN <<DecimalDigits[n + 1]>>
    ELSE Append(DecimalOf(n \div 10), DecimalDigits[(n % 10) + 1])

\* str::trim_end_matches('\0')
RECURSIVE TrimEndMatches(_, _)
TrimEndMatches(s, c) ==
    IF s # <<>> /\ s[Len(s)] = c THEN TrimEndMatches(SubSeq(s, 1, Len(s) - 1), c)
    ELSE s

----------------------------------------------------------------------------
(* Inputs *)

\* Addresses, as byte strings (two bytes stand for the 32 of a Pubkey)
Pubkeys == {<<0, 58>>, <<1, 0>>}

\* Entries a config.json may hold: an address in base58, and the same
\* digits without the "1" of the leading zero byte, the text of no address
WalletStrings == {PubkeyToString(<<0, 58>>), <<"2", "1">>}

ConfigFiles ==
    {[state |-> "missing", lp_wallets |-> <<>>],
     [state |-> "malformed", lp_wallets |-> <<>>]}
    \cup {[state |-> "ok", lp_wallets |-> w] : w \in SeqsUpTo(WalletStrings, MaxWallets)}

\* Values of the CLIENT_ACCOUNT_FILTERING environment variable
EnvValues == {<<>>, <<<<"t","r","u","e">>>>, <<<<"f","a","l","s","e">>>>, <<<<"1">>>>}

Amounts == 0..MaxAmount

TOKEN_METADATA_PROGRAM_ID == "metaqbxx"
OtherProgram == "other"

MintX == "mint_x"
MintY == "mint_y"

\* Metadata records as stored: fixed-width strings padded with NUL
USDC == [name |-> <<"U", "S", "D", NUL, NUL>>, symbol |-> <<"U", NUL, NUL>>]
SOL == [name |-> <<"S", NUL>>, symbol |-> <<"S", NUL, "L", NUL>>]

\* What the ledger answers to get_account: an error, or an account whose
\* data is a Metadata record (<<m>>) or not one (<<>>)
LedgerResponses ==
    {[tag |-> "Err", owner |-> OtherProgram, data |-> <<>>]}
    \cup {[tag |-> "Ok", owner |-> o, data |-> <<>>] :
            o \in {TOKEN_METADATA_PROGRAM_ID, OtherProgram}}
    \cup {[tag |-> "Ok", owner |-> TOKEN_METADATA_PROGRAM_ID, data |-> <<USDC>>],
          [tag |-> "Ok", owner |-> OtherProgram, data |-> <<SOL>>]}

SendResults == {"Ok", "Err"}

\* Bot tokens: one the Telegram API accepts, one it rejects
GoodToken == <<"1", ":", "A">>
BadToken == <<"x">>

\* The environment of the process: each variable unset (<<>>) or set (<<text>>)
TelegramEnvs ==
    {[token |-> t, group_id |-> g] :
        t \in {<<>>, <<GoodToken>>, <<BadToken>>},
        g \in {<<>>, <<<<"-", "1", "0">>>>, <<<<"1", "0", "x">>>>}}

Variants == {"AddLiquidityEvent", "RemoveLiquidityEvent", "AddLiquidity",
             "RemoveLiquidity", "Swap", "InitializePosition"}

NoAccounts == <<>>
ArrangedAccounts == <<[token_x_mint |-> MintX, token_y_mint |-> MintY]>>

TransactionContexts ==
    {[fee_payer |-> f, account_keys |-> k] :
        f \in Pubkeys, k \in SeqsUpTo(Pubkeys, MaxKeys)}

\* accounts is what arrange_accounts makes of the instruction's account list
Payloads ==
    {[variant |-> v, a |-> 0, b |-> 0, bins |-> 0, accounts |-> acc] :
        v \in {"AddLiquidityEvent", "RemoveLiquidityEvent", "InitializePosition"},
        acc \in {NoAccounts, ArrangedAccounts}}
    \cup {[variant |-> v, a |-> a, b |-> b, bins |-> 0, accounts |-> acc] :
            v \in {"AddLiquidity", "Swap"}, a \in Amounts, b \in Amounts,
            acc \in {NoAccounts, ArrangedAccounts}}
    \cup {[variant |-> "RemoveLiquidity", a |-> 0, b |-> 0, bins |-> n, accounts |-> acc] :
            n \in 0..MaxBins, acc \in {NoAccounts, ArrangedAccounts}}

NoData == [variant |-> "none", a |-> 0, b |-> 0, bins |-> 0, accounts |-> NoAccounts,
           fee_payer |-> <<>>, account_keys |-> <<>>]

Instruction(p, t) ==
    [variant |-> p.variant, a |-> p.a, b |-> p.b, bins |-> p.bins,
     accounts |-> p.accounts, fee_payer |-> t.fee_payer, account_keys |-> t.account_keys]

----------------------------------------------------------------------------
(* utils.rs *)

\* str::parse::<bool>: <<b>> for Ok(b), <<>> for Err
ParseBool(s) ==
    IF s = <<"t","r","u","e">> THEN <<TRUE>>
    ELSE IF s = <<"f","a","l","s","e">> THEN <<FALSE>>
    ELSE <<>>

\* env::var(..).unwrap_or_default().parse().unwrap_or_default()
CLIENT_ACCOUNT_FILTERING(env) ==
    LET s == IF env = <<>> THEN <<>> ELSE env[1]
        parsed == ParseBool(s)
    IN  IF parsed = <<>> THEN FALSE ELSE parsed[1]

read_lp_wallets_config(file) ==
    IF file.state = "ok" THEN file.lp_wallets ELSE <<>>

read_lp_wallets_config_log(file) ==
    IF file.state = "ok" THEN <<"info", "Loaded LP wallets from config", <<Len(file.lp_wallets)>>>>
    ELSE IF file.state = "malformed" THEN <<"error", "Error parsing config file", <<>>>>
    ELSE <<"error", "Error opening config file", <<>>>>

----------------------------------------------------------------------------
(* token.rs *)

MetadataOk(name, symbol) == [tag |-> "Ok", name |-> name, symbol |-> symbol, err |-> "none"]
MetadataErr(e) == [tag |-> "Err", name |-> <<>>, symbol |-> <<>>, err |-> e]

get_token_metadata_default_on_parse_failure(account) ==
    IF account.tag = "Err" THEN MetadataErr("RpcClientError")
    ELSE IF account.data = <<>> THEN MetadataOk(<<>>, <<>>)
    ELSE MetadataOk(TrimEndMatches(account.data[1].name, NUL),
                    TrimEndMatches(account.data[1].symbol, NUL))

get_token_metadata(account) ==
    IF account.tag = "Err" THEN MetadataErr("RpcClientError")
    ELSE IF account.data = <<>> THEN MetadataErr("DeserializationError")
    ELSE MetadataOk(TrimEndMatches(account.data[1].name, NUL),
                    TrimEndMatches(account.data[1].symbol, NUL))

get_token_metadata_log(account) ==
    IF account.tag = "Ok" /\ account.owner # TOKEN_METADATA_PROGRAM_ID
    THEN <<<<"warn", "Account owner is not the Token Metadata Program ID", <<>>>>>>
    ELSE <<>>

\* ledger reads one call of get_token_metadata(mint) makes
get_account_calls_retry(mint, account) ==
    IF account.tag = "Err" THEN <<mint, mint>> ELSE <<mint>>

get_account_calls(mint, account) == <<mint>>

----------------------------------------------------------------------------
(* message.rs *)

RECURSIVE DigitsToNat(_)
DigitsToNat(digits) ==
    IF digits = <<>> THEN 0
    ELSE 10 * DigitsToNat(SubSeq(digits, 1, Len(digits) - 1))
         + (CHOOSE d \in 0..9 : DecimalDigits[d + 1] = digits[Len(digits)])

\* str::parse::<i64>: <<n>> for Ok(n), <<>> for Err (the texts of the model
\* are far from the ends of the i64 range)
ParseI64(s) ==
    LET signed == s # <<>> /\ s[1] \in {"-", "+"}
        digits == IF signed THEN Tail(s) ELSE s
    IN  IF digits = <<>> \/ \E i \in 1..Len(digits) : digits[i] \notin Range(DecimalDigits)
        THEN <<>>
        ELSE <<(IF signed /\ s[1] = "-" THEN -1 ELSE 1) * DigitsToNat(digits)>>

\* TelegramService::new: <<service>>, or <<>> when an expect() panics
TelegramService_new_default_group(env) ==
    IF env.token = <<>> THEN <<>>
    ELSE <<[bot_token |-> env.token[1],
            group_id |-> IF env.group_id = <<>> \/ ParseI64(env.group_id[1]) = <<>>
                         THEN 0 ELSE ParseI64(env.group_id[1])[1]]>>

TelegramService_new(env) ==
    IF env.token = <<>> THEN <<>>
    ELSE IF env.group_id = <<>> THEN <<>>
    ELSE IF ParseI64(env.group_id[1]) = <<>> THEN <<>>
    ELSE <<[bot_token |-> env.token[1], group_id |-> ParseI64(env.group_id[1])[1]]>>

\* test_send_msg: for i in 0..3 { tokio::spawn(..) }
NumTasks == 3
Tasks == 1..NumTasks

\* The limiter a task's send_message goes through: every task holds an
\* Arc::clone of the one TelegramService, hence the one Throttle<Bot>
LimiterOf_OwnService(t) == t

LimiterOf(t) == 1

\* What a request made with this token can come back with: the Telegram API
\* answers a token it does not know with an error
SendOutcomes(bot_token) == IF bot_token = GoodToken THEN SendResults ELSE {"Err"}

----------------------------------------------------------------------------
(* processer.rs: check_accounts_in_client *)

\* LP_WALLETS.iter().any(|wallet| wallet == &key.to_string())
RECURSIVE AnyWallet(_, _)
AnyWallet(wallets, key) ==
    IF wallets = <<>> THEN FALSE
    ELSE IF Head(wallets) = PubkeyToString(key) THEN TRUE
    ELSE AnyWallet(Tail(wallets), key)

RECURSIVE LpAccountKeys(_, _)
LpAccountKeys(wallets, account_keys) ==
    IF account_keys = <<>> THEN <<>>
    ELSE IF AnyWallet(wallets, Head(account_keys))
         THEN <<Head(account_keys)>> \o LpAccountKeys(wallets, Tail(account_keys))
         ELSE LpAccountKeys(wallets, Tail(account_keys))

check_accounts_in_client_keys_only(wallets, fee_payer, account_keys) ==
    LpAccountKeys(wallets, account_keys) # <<>>

check_accounts_in_client(wallets, fee_payer, account_keys) ==
    LET fee_payer_is_lp == AnyWallet(wallets, fee_payer)
        lp_account_keys == LpAccountKeys(wallets, account_keys)
    IN  IF fee_payer_is_lp \/ lp_account_keys # <<>> THEN TRUE ELSE FALSE

check_accounts_in_client_log(wallets, fee_payer, account_keys) ==
    LET fee_payer_is_lp == AnyWallet(wallets, fee_payer)
        lp_account_keys == LpAccountKeys(wallets, account_keys)
    IN  IF fee_payer_is_lp \/ lp_account_keys # <<>>
        THEN <<<<"info", "LP wallet detected in transaction!", <<>>>>>>
             \o (IF fee_payer_is_lp THEN <<<<"info", "LP fee_payer", PubkeyToString(fee_payer)>>>> ELSE <<>>)
             \o (IF lp_account_keys # <<>>
                 THEN <<<<"info", "LP account keys", lp_account_keys>>>> ELSE <<>>)
        ELSE <<>>

----------------------------------------------------------------------------
(* processer.rs: process *)

\* line 59: the call returns early
GateRejects_IgnoresToggle(filtering, in_client) == ~in_client

GateRejects(filtering, in_client) == filtering /\ ~in_client

\* the arms of the match that resolve token metadata
ResolvesMetadata_AlsoEvents(variant) ==
    variant \in {"AddLiquidity", "RemoveLiquidity", "Swap", "AddLiquidityEvent"}

ResolvesMetadata(variant) == variant \in {"AddLiquidity", "RemoveLiquidity", "Swap"}

\* lines 84-85, 114-115, 145-146: if let Some(accounts) = arrange_accounts(..);
\* with None the arm does nothing and the call goes on to the inner check
AfterArrange_ReturnsOnNone(accounts) == IF accounts # <<>> THEN "resolve_x" ELSE "returned"

AfterArrange(accounts) == IF accounts # <<>> THEN "resolve_x" ELSE "inner"

\* where the call goes after the token_x resolution
AfterResolveX_AbortOnErr(r) == IF r.tag = "Err" THEN "inner" ELSE "resolve_y"

AfterResolveX(r) == "resolve_y"

\* Option<String> of a resolution
SymbolOf(r) == IF r.tag = "Ok" THEN <<r.symbol>> ELSE <<>>

\* line 176
ShouldSend(symbol_x, symbol_y) == symbol_x # <<>> /\ symbol_y # <<>>

\* lines 177-183: format!
SwapMessage_AmountsSwapped(symbol_x, symbol_y, amount_in, min_amount_out) ==
    <<"Swap Instruction:", "Token X: ", symbol_x, "Token Y: ", symbol_y,
      "Amount In: ", DecimalOf(min_amount_out), "Min Amount Out: ", DecimalOf(amount_in)>>

SwapMessage(symbol_x, symbol_y, amount_in, min_amount_out) ==
    <<"Swap Instruction:", "Token X: ", symbol_x, "Token Y: ", symbol_y,
      "Amount In: ", DecimalOf(amount_in), "Min Amount Out: ", DecimalOf(min_amount_out)>>

----------------------------------------------------------------------------
(* State machine *)

Init ==
    /\ clientAccountFiltering = <<>>
    /\ lpWallets = <<>>
    /\ configLog = <<>>
    /\ pc = "idle"
    /\ data = NoData
    /\ checked = <<>>
    /\ rpc = <<>>
    /\ meta_x = <<>>
    /\ meta_y = <<>>
    /\ fetched_x = <<>>
    /\ fetched_y = <<>>
    /\ sent = <<>>
    /\ sendResult = <<>>
    /\ log = <<>>
    /\ result = <<>>
    /\ telegramEnv \in TelegramEnvs
    /\ service = <<>>
    /\ startup = "start"
    /\ taskPc = [t \in Tasks |-> "none"]
    /\ queue = [l \in Tasks |-> <<>>]
    /\ window = [l \in Tasks |-> 0]
    /\ delayed = {}

\* message.rs 18-31: the notification channel is constructed; a missing
\* variable or a group id that is no i64 panics
NewTelegramService ==
    /\ startup = "start"
    /\ service' = TelegramService_new(telegramEnv)
    /\ startup' = IF service' = <<>> THEN "panic" ELSE "service"
    /\ UNCHANGED <<clientAccountFiltering, lpWallets, configLog, pc, data, checked, rpc,
                   meta_x, meta_y, fetched_x, fetched_y, sent, sendResult, log, result,
                   telegramEnv, throttleVars>>

\* processer.rs 31-33: the processor is built from the Arc<TelegramService>
\* and handed to the pipeline
NewProcessor ==
    /\ startup = "service"
    /\ service # <<>>
    /\ startup' = "running"
    /\ UNCHANGED <<clientAccountFiltering, lpWallets, configLog, pc, data, checked, rpc,
                   meta_x, meta_y, fetched_x, fetched_y, sent, sendResult, log, result,
                   telegramEnv, service, throttleVars>>

\* lines 44-62: a call of process, up to the relevance gate.  The two Lazy
\* statics are initialised on their first dereference: env and file are what
\* the environment and config.json hold at that moment.
Process(p, t, env, file) ==
    /\ startup = "running"
    /\ pc = "idle"
    /\ LET filtering == IF clientAccountFiltering = <<>>
                        THEN CLIENT_ACCOUNT_FILTERING(env)
                        ELSE clientAccountFiltering[1]
           loads == filtering /\ lpWallets = <<>>
           wallets == IF loads THEN read_lp_wallets_config(file)
                      ELSE IF lpWallets = <<>> THEN <<>> ELSE lpWallets[1]
           in_client == check_accounts_in_client(wallets, t.fee_payer, t.account_keys)
           rejects == GateRejects(filtering, in_client)
       IN  /\ clientAccountFiltering' = <<filtering>>
           /\ lpWallets' = IF loads THEN <<wallets>> ELSE lpWallets
           /\ configLog' = IF loads THEN read_lp_wallets_config_log(file) ELSE configLog
           /\ checked' = IF filtering THEN <<in_client>> ELSE <<>>
           /\ log' = <<<<"debug", "Decoded instruction data", <<>>>>>>
                     \o (IF filtering
                         THEN check_accounts_in_client_log(wallets, t.fee_payer, t.account_keys)
                         ELSE <<>>)
                     \o (IF rejects
                         THEN <<<<"warn", "CLIENT_ACCOUNT_FILTERING, check_accounts_in_client false", <<>>>>>>
                         ELSE <<>>)
           /\ pc' = IF rejects THEN "returned" ELSE "match"
           /\ result' = IF rejects THEN <<"Ok">> ELSE <<>>
    /\ data' = Instruction(p, t)
    /\ rpc' = <<>>
    /\ meta_x' = <<>>
    /\ meta_y' = <<>>
    /\ fetched_x' = <<>>
    /\ fetched_y' = <<>>
    /\ sent' = <<>>
    /\ sendResult' = <<>>
    /\ UNCHANGED <<startupVars, throttleVars>>

\* lines 66-88, 113-116, 144-147, 188-193: the match, up to the first resolution
Classify ==
    /\ pc = "match"
    /\ IF ResolvesMetadata(data.variant)
       THEN /\ log' = IF data.accounts # <<>>
                      THEN Append(log, <<"info", "Instruction details", <<data.variant>>>>)
                      ELSE log
            /\ pc' = AfterArrange(data.accounts)
       ELSE IF data.variant \in {"AddLiquidityEvent", "RemoveLiquidityEvent"}
       THEN /\ log' = Append(log, <<"info", "Event details", <<data.variant>>>>)
            /\ pc' = "inner"
       ELSE /\ log' = Append(log, <<"info", "Instruction type", <<data.variant>>>>)
            /\ pc' = "inner"
    /\ UNCHANGED <<clientAccountFiltering, lpWallets, configLog, data, checked, rpc,
                   meta_x, meta_y, fetched_x, fetched_y, sent, sendResult, result>>
    /\ UNCHANGED <<startupVars, throttleVars>>

\* lines 90-97, 120-127, 151-160: get_token_metadata(token_x).await
ResolveX(account) ==
    /\ pc = "resolve_x"
    /\ LET r == get_token_metadata(account)
       IN  /\ meta_x' = <<r>>
           /\ fetched_x' = <<account>>
           /\ rpc' = rpc \o get_account_calls(data.accounts[1].token_x_mint, account)
           /\ log' = log \o get_token_metadata_log(account)
                     \o (IF r.tag = "Ok"
                         THEN <<<<"info", "symbol_x", r.symbol>>>>
                         ELSE <<<<"error", "Failed to fetch token_x metadata", <<r.err>>>>>>)
           /\ pc' = AfterResolveX(r)
    /\ UNCHANGED <<clientAccountFiltering, lpWallets, configLog, data, checked,
                   meta_y, fetched_y, sent, sendResult, result>>
    /\ UNCHANGED <<startupVars, throttleVars>>

\* lines 99-106, 129-136, 161-170: get_token_metadata(token_y).await
ResolveY(account) ==
    /\ pc = "resolve_y"
    /\ LET r == get_token_metadata(account)
       IN  /\ meta_y' = <<r>>
           /\ fetched_y' = <<account>>
           /\ rpc' = rpc \o get_account_calls(data.accounts[1].token_y_mint, account)
           /\ log' = log \o get_token_metadata_log(account)
                     \o (IF r.tag = "Ok"
                         THEN <<<<"info", "symbol_y", r.symbol>>>>
                         ELSE <<<<"error", "Failed to fetch token_y metadata", <<r.err>>>>>>)
           /\ pc' = "report"
    /\ UNCHANGED <<clientAccountFiltering, lpWallets, configLog, data, checked,
                   meta_x, fetched_x, sent, sendResult, result>>
    /\ UNCHANGED <<startupVars, throttleVars>>

\* lines 107-110, 137-141, 171-184: the amounts are logged; a Swap with both
\* symbols calls send_message
ReportAmounts ==
    /\ pc = "report"
    /\ LET symbol_x == SymbolOf(meta_x[1])
           symbol_y == SymbolOf(meta_y[1])
       IN  IF data.variant = "AddLiquidity"
           THEN /\ log' = log \o <<<<"info", "amount_x", DecimalOf(data.a)>>,
                                   <<"info", "amount_y", DecimalOf(data.a)>>>>
                /\ sent' = sent
                /\ pc' = "inner"
           ELSE IF data.variant = "RemoveLiquidity"
           THEN /\ log' = Append(log, <<"info", "bin_liquidity_removal_len",
                                        DecimalOf(data.bins)>>)
                /\ sent' = sent
                /\ pc' = "inner"
           ELSE /\ log' = log \o <<<<"info", "amount_in", DecimalOf(data.a)>>,
                                   <<"info", "min_amount_out", DecimalOf(data.b)>>>>
                /\ IF ShouldSend(symbol_x, symbol_y)
                   THEN /\ sent' = Append(sent, SwapMessage(symbol_x[1], symbol_y[1],
                                                            data.a, data.b))
                        /\ pc' = "send"
                   ELSE /\ sent' = sent
                        /\ pc' = "inner"
    /\ UNCHANGED <<clientAccountFiltering, lpWallets, configLog, data, checked, rpc,
                   meta_x, meta_y, fetched_x, fetched_y, sendResult, result>>
    /\ UNCHANGED <<startupVars, throttleVars>>

\* line 184: send_message(..).await.unwrap(); r is what the Telegram request
\* came back with.  unwrap() of an Err panics: the call unwinds and neither
\* the rest of process nor a later call runs.
SendMessage(r) ==
    /\ pc = "send"
    /\ r \in SendOutcomes(service[1].bot_token)
    /\ sendResult' = <<r>>
    /\ IF r = "Ok"
       THEN /\ pc' = "inner"
            /\ result' = result
       ELSE /\ pc' = "panicked"
            /\ result' = <<"panic">>
    /\ UNCHANGED <<clientAccountFiltering, lpWallets, configLog, data, checked, rpc,
                   meta_x, meta_y, fetched_x, fetched_y, sent, log>>
    /\ UNCHANGED <<startupVars, throttleVars>>

\* lines 196-200, 217: the inner-instruction check, then Ok(())
InnerLog(inner_instructions) ==
    /\ pc = "inner"
    /\ log' = Append(log, IF inner_instructions
                          THEN <<"info", "Transaction signature", <<>>>>
                          ELSE <<"info", "This transaction has no inner instructions", <<>>>>)
    /\ pc' = "returned"
    /\ result' = <<"Ok">>
    /\ UNCHANGED <<clientAccountFiltering, lpWallets, configLog, data, checked, rpc,
                   meta_x, meta_y, fetched_x, fetched_y, sent, sendResult>>
    /\ UNCHANGED <<startupVars, throttleVars>>

\* The call has returned Ok(()) to the pipeline, which drops the call's data
\* and waits for the next instruction of the feed
NextInstruction ==
    /\ pc = "returned"
    /\ pc' = "idle"
    /\ data' = NoData
    /\ checked' = <<>>
    /\ rpc' = <<>>
    /\ meta_x' = <<>>
    /\ meta_y' = <<>>
    /\ fetched_x' = <<>>
    /\ fetched_y' = <<>>
    /\ sent' = <<>>
    /\ sendResult' = <<>>
    /\ log' = <<>>
    /\ result' = <<>>
    /\ UNCHANGED <<clientAccountFiltering, lpWallets, configLog>>
    /\ UNCHANGED <<startupVars, throttleVars>>

\* The environment variable is read by the first call only, and config.json
\* by the first call that has the gate enabled
EnvRead == IF clientAccountFiltering = <<>> THEN EnvValues ELSE {<<>>}

FileRead(env) ==
    IF lpWallets = <<>>
       /\ (IF clientAccountFiltering = <<>> THEN CLIENT_ACCOUNT_FILTERING(env)
           ELSE clientAccountFiltering[1])
    THEN ConfigFiles
    ELSE {[state |-> "missing", lp_wallets |-> <<>>]}

Next ==
    \/ NewTelegramService
    \/ NewProcessor
    \/ \E p \in Payloads, t \in TransactionContexts, env \in EnvRead :
            \E file \in FileRead(env) : Process(p, t, env, file)
    \/ Classify
    \/ \E account \in LedgerResponses : ResolveX(account)
    \/ \E account \in LedgerResponses : ResolveY(account)
    \/ ReportAmounts
    \/ \E r \in SendResults : SendMessage(r)
    \/ \E inner_instructions \in BOOLEAN : InnerLog(inner_instructions)
    \/ NextInstruction

Spec == Init /\ [][Next]_vars

----------------------------------------------------------------------------
(* message.rs: test_send_msg, concurrent send_message calls *)

\* lines 84-103: the service is constructed and the tasks are spawned
ThrottleInit ==
    /\ clientAccountFiltering = <<>>
    /\ lpWallets = <<>>
    /\ configLog = <<>>
    /\ pc = "idle"
    /\ data = NoData
    /\ checked = <<>>
    /\ rpc = <<>>
    /\ meta_x = <<>>
    /\ meta_y = <<>>
    /\ fetched_x = <<>>
    /\ fetched_y = <<>>
    /\ sent = <<>>
    /\ sendResult = <<>>
    /\ log = <<>>
    /\ result = <<>>
    /\ telegramEnv \in {e \in TelegramEnvs : TelegramService_new(e) # <<>>}
    /\ service = TelegramService_new(telegramEnv)
    /\ startup = "service"
    /\ taskPc = [t \in Tasks |-> "spawned"]
    /\ queue = [l \in Tasks |-> <<>>]
    /\ window = [l \in Tasks |-> 0]
    /\ delayed = {}

\* lines 95-96, 42-47: the task calls send_message; the request is handed to
\* the limiter of its service and the task awaits
TaskSend(t) ==
    /\ taskPc[t] = "spawned"
    /\ taskPc' = [taskPc EXCEPT ![t] = "queued"]
    /\ queue' = [queue EXCEPT ![LimiterOf(t)] = Append(@, t)]
    /\ UNCHANGED <<processVars, startupVars, window, delayed>>

\* The limiter releases the oldest waiting request to the remote endpoint,
\* if it has released fewer than the limit in this interval
Release(l) ==
    /\ queue[l] # <<>>
    /\ window[l] < ThrottleLimit
    /\ taskPc' = [taskPc EXCEPT ![Head(queue[l])] = "released"]
    /\ queue' = [queue EXCEPT ![l] = Tail(@)]
    /\ window' = [window EXCEPT ![l] = @ + 1]
    /\ UNCHANGED <<processVars, startupVars, delayed>>

\* The throttle interval ends; the requests still waiting are late
Tick ==
    /\ \E l \in Tasks : window[l] > 0
    /\ window' = [l \in Tasks |-> 0]
    /\ delayed' = delayed \cup {t \in Tasks : taskPc[t] = "queued"}
    /\ UNCHANGED <<processVars, startupVars, taskPc, queue>>

\* lines 47-48, 96-99: the request comes back and send_message returns
Complete(t, r) ==
    /\ taskPc[t] = "released"
    /\ r \in SendOutcomes(service[1].bot_token)
    /\ taskPc' = [taskPc EXCEPT ![t] = IF r = "Ok" THEN "ok" ELSE "err"]
    /\ UNCHANGED <<processVars, startupVars, queue, window, delayed>>

ThrottleNext ==
    \/ \E t \in Tasks : TaskSend(t)
    \/ \E l \in Tasks : Release(l)
    \/ Tick
    \/ \E t \in Tasks, r \in SendResults : Complete(t, r)

\* The runtime runs every spawned task and the limiter's worker, time passes,
\* and the HTTP client ends every request with a response or an error
SpecThrottle ==
    /\ ThrottleInit
    /\ [][ThrottleNext]_vars
    /\ \A t \in Tasks : WF_vars(TaskSend(t))
    /\ \A l \in Tasks : WF_vars(Release(l))
    /\ WF_vars(Tick)
    /\ \A t \in Tasks : WF_vars(\E r \in SendResults : Complete(t, r))

----------------------------------------------------------------------------
(* Observations used by the properties *)

Ended == pc \in {"returned", "panicked"}

DualMint == {"AddLiquidity", "RemoveLiquidity", "Swap"}

LogHas(text) == \E i \in 1..Len(log) : log[i][2] = text

Rejected == LogHas("CLIENT_ACCOUNT_FILTERING, check_accounts_in_client false")

InnerLogged ==
    \/ LogHas("Transaction signature")
    \/ LogHas("This transaction has no inner instructions")

\* the fee payer or a static account key is an entry of the loaded watchlist
Watchlist == IF lpWallets = <<>> THEN {} ELSE Range(lpWallets[1])

InWatchlist ==
    \E k \in {data.fee_payer} \cup Range(data.account_keys) : PubkeyToString(k) \in Watchlist

GateOpen == clientAccountFiltering = <<FALSE>> \/ (data.variant # "none" /\ InWatchlist)

Arranged == data.accounts # <<>>

Occurrences(s, e) == Cardinality({i \in 1..Len(s) : s[i] = e})

----------------------------------------------------------------------------
(* Properties *)

\* C1: a Swap that passes the relevance gate and whose accounts arrange
\* dispatches exactly one notification, holding both resolved symbols,
\* amount_in and min_amount_out, when both resolutions succeed, and none when
\* either resolution fails.
C1_SwapNotification ==
    (Ended /\ data.variant = "Swap" /\ GateOpen /\ Arranged) =>
        IF meta_x[1].tag = "Ok" /\ meta_y[1].tag = "Ok"
        THEN /\ Len(sent) = 1
             /\ sent[1][3] = meta_x[1].symbol
             /\ sent[1][5] = meta_y[1].symbol
             /\ sent[1][7] = DecimalOf(data.a)
             /\ sent[1][9] = DecimalOf(data.b)
        ELSE sent = <<>>

C1_Witness ==
    /\ pc = "returned" /\ data.variant = "Swap" /\ GateOpen /\ Arranged
    /\ meta_x[1].tag = "Ok" /\ meta_y[1].tag = "Ok"
    /\ data.a # data.b
    /\ Len(sent) = 1

\* C2: a delivery error of send_message during Swap processing is not fatal:
\* the call does not panic, it goes on to the inner-instruction log and
\* returns Ok.
C2_DeliveryErrorNonFatal ==
    sendResult = <<"Err">> => (pc \in {"inner", "returned"} /\ result # <<"panic">>)

\* C3: with the gate enabled and neither the fee payer nor a static account
\* key in LP_WALLETS, the call resolves no metadata and sends no notification,
\* whatever the variant; with the gate disabled no instruction is rejected
\* and every call goes through the match.
C3_GateFastReject ==
    /\ (clientAccountFiltering = <<TRUE>> /\ data.variant # "none" /\ ~InWatchlist) =>
            /\ rpc = <<>> /\ meta_x = <<>> /\ meta_y = <<>> /\ sent = <<>>
            /\ pc = "returned" /\ Rejected
    /\ (clientAccountFiltering = <<FALSE>> /\ data.variant # "none") =>
            /\ ~Rejected
            /\ checked = <<>>
            /\ pc = "returned" => InnerLogged

C3_Witness ==
    /\ clientAccountFiltering = <<TRUE>> /\ lpWallets # <<<<>>>>
    /\ data.variant = "Swap" /\ Arranged /\ ~InWatchlist
    /\ pc = "returned"

\* C4: a missing or malformed config.json loads as an empty watchlist without
\* aborting, and then no instruction is rejected by the relevance gate, also
\* with the gate enabled.
C4_EmptyWatchlistFiltersNothing ==
    (configLog # <<>> /\ configLog[1] = "error") =>
        /\ lpWallets = <<<<>>>>
        /\ pc # "panicked"
        /\ ~Rejected

\* C5: AddLiquidityEvent and RemoveLiquidityEvent never call
\* get_token_metadata nor send_message, in every watchlist state and for
\* either value of the gate toggle.
C5_EventsNoResolutionNoDispatch ==
    data.variant \in {"AddLiquidityEvent", "RemoveLiquidityEvent"} =>
        /\ rpc = <<>> /\ meta_x = <<>> /\ meta_y = <<>>
        /\ sent = <<>> /\ sendResult = <<>>

C5_Witness ==
    /\ pc = "returned" /\ data.variant = "AddLiquidityEvent" /\ Arranged
    /\ LogHas("Event details")

\* C6: every call of process logs the inner-instruction check before it
\* ends, whatever the variant, the gate outcome and the outcome of
\* resolution and dispatch.
C6_InnerLogAlways == Ended => InnerLogged

\* C7: an AddLiquidity whose accounts arrange reports the instruction's own
\* two amounts: amount_x as amount_x and amount_y as amount_y.
C7_ReportedAmounts ==
    \A i \in 1..Len(log) :
        /\ log[i][2] = "amount_x" => log[i][3] = DecimalOf(data.a)
        /\ log[i][2] = "amount_y" => log[i][3] = DecimalOf(data.b)

\* C8: an AddLiquidity or RemoveLiquidity whose accounts arrange resolves
\* token_x_mint and token_y_mint each on its own: token_y is resolved also
\* after token_x failed, the call returns Ok, and no notification is sent for
\* any combination of outcomes.
C8_IndependentResolution ==
    /\ data.variant \in {"AddLiquidity", "RemoveLiquidity"} => sent = <<>>
    /\ (Ended /\ data.variant \in {"AddLiquidity", "RemoveLiquidity"} /\ GateOpen /\ Arranged) =>
            /\ meta_x # <<>> /\ meta_y # <<>>
            /\ Occurrences(rpc, MintX) >= 1 /\ Occurrences(rpc, MintY) >= 1
            /\ result = <<"Ok">>

C8_Witness ==
    /\ pc = "returned" /\ data.variant = "AddLiquidity" /\ Arranged
    /\ meta_x # <<>> /\ meta_x[1].tag = "Err"
    /\ meta_y # <<>> /\ meta_y[1].tag = "Ok"

\* C9: check_accounts_in_client returns true exactly when the fee payer or
\* one of the account keys is an entry of the loaded watchlist.
C9_CheckAccountsInClient ==
    checked # <<>> => (checked[1] <=> InWatchlist)

C9_Witness ==
    /\ checked = <<TRUE>>
    /\ PubkeyToString(data.fee_payer) \in Watchlist
    /\ \A k \in Range(data.account_keys) : PubkeyToString(k) \notin Watchlist

\* C10: one call reads the metadata account of each mint exactly once for a
\* Swap, AddLiquidity or RemoveLiquidity it resolves (never more than two
\* reads, never twice the same mint) and reads nothing for any other
\* variant; a failed read or a failed dispatch is not made again.
C10_ReadsPerMint ==
    /\ Len(rpc) <= 2 /\ Occurrences(rpc, MintX) <= 1 /\ Occurrences(rpc, MintY) <= 1
    /\ Len(sent) <= 1
    /\ data.variant \notin DualMint => rpc = <<>>
    /\ (Ended /\ data.variant \in DualMint /\ GateOpen /\ Arranged) => rpc = <<MintX, MintY>>

C10_Witness ==
    /\ pc = "returned" /\ data.variant = "Swap"
    /\ meta_x # <<>> /\ meta_x[1].tag = "Err"
    /\ meta_y # <<>> /\ meta_y[1].tag = "Err"
    /\ rpc = <<MintX, MintY>>

\* C11: get_token_metadata returns Ok(name, symbol) only when the account
\* fetch and the record parse both succeed: a failed read gives the RPC
\* error, a parse failure the deserialization error, never a default or empty
\* value; an owner-program mismatch alone does not make the result an error.
ResolutionFaithful(fetched, meta) ==
    meta # <<>> =>
        /\ fetched # <<>>
        /\ meta[1].tag = "Ok" <=> (fetched[1].tag = "Ok" /\ fetched[1].data # <<>>)
        /\ fetched[1].tag = "Err" => (meta[1].tag = "Err" /\ meta[1].err = "RpcClientError")
        /\ (fetched[1].tag = "Ok" /\ fetched[1].data = <<>>) =>
                (meta[1].tag = "Err" /\ meta[1].err = "DeserializationError")
        /\ meta[1].tag = "Ok" =>
                /\ meta[1].symbol # <<>> /\ meta[1].name # <<>>
                /\ meta[1].symbol \in {<<"U">>, <<"S", NUL, "L">>}
        /\ (fetched[1].tag = "Ok" /\ fetched[1].owner # TOKEN_METADATA_PROGRAM_ID
            /\ fetched[1].data # <<>>) => meta[1].tag = "Ok"

C11_MetadataResult ==
    /\ ResolutionFaithful(fetched_x, meta_x)
    /\ ResolutionFaithful(fetched_y, meta_y)

C11_Witness ==
    /\ meta_x # <<>> /\ meta_x[1].tag = "Err" /\ meta_x[1].err = "DeserializationError"
    /\ fetched_y # <<>> /\ fetched_y[1].owner # TOKEN_METADATA_PROGRAM_ID
    /\ meta_y # <<>> /\ meta_y[1].tag = "Ok"

\* C14: when arrange_accounts returns None for a Swap, AddLiquidity or
\* RemoveLiquidity, the call resolves no metadata and sends no notification,
\* still logs the inner-instruction check, and returns Ok.
C14_ArrangeNone ==
    (data.variant \in DualMint /\ ~Arranged /\ pc # "idle") =>
        /\ rpc = <<>> /\ meta_x = <<>> /\ meta_y = <<>>
        /\ sent = <<>> /\ sendResult = <<>>
        /\ pc \in {"match", "inner", "returned"}
        /\ (pc = "returned" /\ ~Rejected) => (InnerLogged /\ result = <<"Ok">>)

C14_Witness ==
    /\ data.variant = "Swap" /\ ~Arranged /\ ~Rejected
    /\ pc = "returned" /\ InnerLogged /\ result = <<"Ok">>

\* C13 as stated: a missing or invalid notification credential (bot token or
\* group id) is fatal at startup, so no instruction is processed in a process
\* started without valid credentials; a watchlist configuration error never
\* prevents startup.
CredentialsValid ==
    /\ telegramEnv.token # <<>> /\ telegramEnv.token[1] = GoodToken
    /\ telegramEnv.group_id # <<>> /\ ParseI64(telegramEnv.group_id[1]) # <<>>

NothingProcessed == pc = "idle" /\ data = NoData /\ log = <<>> /\ configLog = <<>>

CredentialsPresent ==
    /\ telegramEnv.token # <<>>
    /\ telegramEnv.group_id # <<>> /\ ParseI64(telegramEnv.group_id[1]) # <<>>

RECURSIVE SumOver(_, _)
SumOver(f, S) ==
    IF S = {} THEN 0
    ELSE LET x == CHOOSE y \in S : TRUE IN f[x] + SumOver(f, S \ {x})

ReleasedThisInterval == SumOver(window, Tasks)

AllCallsCompleted == \A t \in Tasks : taskPc[t] \in {"ok", "err"}

C12_SharedThrottle ==
    /\ [](ReleasedThisInterval <= ThrottleLimit)
    /\ <>AllCallsCompleted

C12_Witness ==
    /\ AllCallsCompleted
    /\ delayed # {}
    /\ \E t \in Tasks : taskPc[t] = "ok"

====
